---- MODULE Spec2Model ----
(***************************************************************************)
(* A model of the obsidian-paste-image-rename plugin (src/src/main.ts):    *)
(* duplicate-name resolution (deduplicateNewName), the rename pathway      *)
(* (startRenameProcess, renameFile), name generation (generateNewName),    *)
(* format conversion (compressToFormat), the rename modal's callback, the   *)
(* create handler, format selection (getOptimalDefaultFormat) and the      *)
(* batch loops (renameAll, batchRenameAllImages).                          *)
(*                                                                         *)
(* File names are sequences of one-character strings, so that the string   *)
(* operations of the code (slice, template literals, RegExp.exec,          *)
(* parseInt) are computed and not assumed.                                 *)
(***************************************************************************)
EXTENDS Integers, Sequences, FiniteSets, TLC

VARIABLES
    settings,   \* PluginSettings: the fields the modelled code reads
    dd,         \* a harness around deduplicateNewName: inputs and results
    vault,      \* the attachment directory: file name -> bytes
    task,       \* the asynchronous calls in flight, one per task id
    isProcessingCompression, \* the plugin's flag of the same name
    activeFile, \* the active document and its metadata cache entry
    probe,      \* what canvas.toDataURL can encode: supportsAvif/supportsWebp
    modals,     \* the plugin's modals array: the tasks whose modal is open
    call,       \* a harness around a pure function: inputs and results
    batch,      \* a batch loop (renameAll, batchRenameAllImages) in progress
    loaded      \* the plugin is loaded: onload has run, onunload has not

vars == <<settings, dd, vault, task, isProcessingCompression, activeFile,
          probe, modals, call, batch, loaded>>

----------------------------------------------------------------------------
(* Strings *)

DigitChars == <<"0", "1", "2", "3", "4", "5", "6", "7", "8", "9">>

IsDigit(c) == \E i \in 1..Len(DigitChars) : DigitChars[i] = c

DigitVal(c) == (CHOOSE i \in 1..Len(DigitChars) : DigitChars[i] = c) - 1

\* parseInt on a run of decimal digits (leading zeros allowed)
RECURSIVE parseInt(_)
parseInt(ds) ==
    IF ds = <<>> THEN 0
    ELSE parseInt(SubSeq(ds, 1, Len(ds) - 1)) * 10 + DigitVal(ds[Len(ds)])

\* `${newNumber}`: the decimal numeral of a natural number, no leading zeros
RECURSIVE NumToStr(_)
NumToStr(n) ==
    IF n < 10 THEN <<DigitChars[n + 1]>>
    ELSE NumToStr(n \div 10) \o <<DigitChars[(n % 10) + 1]>>

MaxOf(S) == CHOOSE m \in S : \A x \in S : x <= m

DotPositions(s) == {i \in 1..Len(s) : s[i] = "."}

Contains(str, word) ==
    \E i \in 1..(Len(str) - Len(word) + 1) :
        SubSeq(str, i, i + Len(word) - 1) = word

\* path.extension: everything after the last dot
PathExtension(fullpath) ==
    SubSeq(fullpath, MaxOf(DotPositions(fullpath)) + 1, Len(fullpath))

----------------------------------------------------------------------------
(* Regular expressions, as far as dupNameRegex needs them.  A pattern is a  *)
(* sequence of items; an item matches one character (a literal or \d), or, *)
(* with plus, one or more of them; cap marks the items of the group        *)
(* (?<number>...).                                                         *)

Lit(c) == [cls |-> "lit", ch |-> c, plus |-> FALSE, cap |-> FALSE]

DigitsGroup == [cls |-> "digit", ch |-> "", plus |-> TRUE, cap |-> TRUE]

\* escapeRegExp: every character of the string stands for itself
escapeRegExp(str) == [i \in 1..Len(str) |-> Lit(str[i])]

\* Source text put into a pattern without escaping: "+" quantifies the item
\* before it, any other character of the alphabet stands for itself.
RECURSIVE RegExpSource(_, _)
RegExpSource(items, raw) ==
    IF raw = <<>> THEN items
    ELSE IF Head(raw) = "+" /\ items # <<>>
         THEN RegExpSource(
                 [items EXCEPT ![Len(items)] = [@ EXCEPT !.plus = TRUE]],
                 Tail(raw))
         ELSE RegExpSource(Append(items, Lit(Head(raw))), Tail(raw))

Accepts(item, c) ==
    IF item.cls = "digit" THEN IsDigit(c) ELSE c = item.ch

\* The captures of every way the anchored pattern matches the whole of s
RECURSIVE Captures(_, _, _)
Captures(items, s, cap) ==
    IF items = <<>> THEN (IF s = <<>> THEN {cap} ELSE {})
    ELSE LET it == Head(items)
             lens == IF it.plus
                     THEN {k \in 1..Len(s) :
                             \A i \in 1..k : Accepts(it, s[i])}
                     ELSE {k \in {1} : Len(s) >= 1 /\ Accepts(it, s[1])}
         IN  UNION { Captures(Tail(items),
                              SubSeq(s, k + 1, Len(s)),
                              IF it.cap THEN cap \o SubSeq(s, 1, k) ELSE cap)
                     : k \in lens }

NoMatch == <<"null">>

\* dupNameRegex.exec(sibling): the number group of the match, or null.
\* The quantifier of the group is greedy: the longest capture that matches.
RegExpExec(items, s) ==
    LET caps == Captures(items, s, <<>>)
    IN  IF caps = {} THEN NoMatch
        ELSE CHOOSE c \in caps : \A d \in caps : Len(d) <= Len(c)

----------------------------------------------------------------------------
(* deduplicateNewName *)

\* the pattern of an already numbered sibling of newNameStem.newNameExt
DupNameRegex(newNameStem, newNameExt, delimiter, atStart) ==
    IF atStart
    THEN RegExpSource(
            <<DigitsGroup>> \o escapeRegExp(delimiter)
                \o escapeRegExp(newNameStem) \o <<Lit(".")>>,
            newNameExt)
    ELSE RegExpSource(
            escapeRegExp(newNameStem) \o escapeRegExp(delimiter)
                \o <<DigitsGroup>> \o <<Lit(".")>>,
            newNameExt)

\* the numbers the scan of the listing pushes to dupNameNumbers
DupNameNumbers(newName, listed, dupNameRegex) ==
    { parseInt(RegExpExec(dupNameRegex, sibling)) :
        sibling \in { s \in listed :
                        /\ s # newName
                        /\ RegExpExec(dupNameRegex, s) # NoMatch } }

\* a plausible slip: the first unused number, which fills a gap
NewNumber_FillsGap(dupNameNumbers) ==
    CHOOSE n \in 1..(Cardinality(dupNameNumbers) + 1) :
        /\ n \notin dupNameNumbers
        /\ \A m \in 1..(n - 1) : m \in dupNameNumbers

NewNumber(dupNameNumbers) ==
    IF dupNameNumbers # {} THEN MaxOf(dupNameNumbers) + 1 ELSE 1

\* a plausible slip: any sibling that starts with the candidate's stem counts
\* as the candidate existing
IsNewNameExist_SameStem(newName, listed) ==
    LET n == Len(newName) - Len(PathExtension(newName)) - 1
    IN  \E sibling \in listed :
            Len(sibling) >= n /\ SubSeq(sibling, 1, n) = SubSeq(newName, 1, n)

\* isNewNameExist after the scan: some sibling equals newName
IsNewNameExist(newName, listed) ==
    \E sibling \in listed : sibling = newName

deduplicateNewName(newName, listed, st) ==
    LET newNameExt == PathExtension(newName)
        newNameStem == SubSeq(newName, 1, Len(newName) - Len(newNameExt) - 1)
        delimiter == st.dupNumberDelimiter
        dupNameRegex == DupNameRegex(newNameStem, newNameExt, delimiter,
                                     st.dupNumberAtStart)
        dupNameNumbers == DupNameNumbers(newName, listed, dupNameRegex)
        isNewNameExist == IsNewNameExist(newName, listed)
        newNumber == NewNumber(dupNameNumbers)
        name == IF isNewNameExist \/ st.dupNumberAlways
                THEN IF st.dupNumberAtStart
                     THEN NumToStr(newNumber) \o delimiter \o newNameStem
                            \o <<".">> \o newNameExt
                     ELSE newNameStem \o delimiter \o NumToStr(newNumber)
                            \o <<".">> \o newNameExt
                ELSE newName
    IN  [name |-> name,
         stem |-> SubSeq(name, 1, Len(name) - Len(newNameExt) - 1),
         extension |-> newNameExt]

----------------------------------------------------------------------------
(* Settings *)

\* DEFAULT_SETTINGS, the fields the modelled code reads
DEFAULT_SETTINGS ==
    [imageNamePattern |-> <<"{{fileName}}">>,
     dupNumberAtStart |-> FALSE,
     dupNumberDelimiter |-> <<"-">>,
     dupNumberAlways |-> FALSE,
     autoRename |-> FALSE,
     handleAllAttachments |-> FALSE,
     excludeExtensionPattern |-> <<>>,
     disableRenameNotice |-> FALSE,
     enableCompression |-> TRUE,
     outputFormat |-> <<"a", "u", "t", "o">>,
     smartFormatSelection |-> TRUE]

----------------------------------------------------------------------------
(* The names the checks draw from *)

MaxNum == 3        \* siblings are numbered 1..MaxNum (and 9, and 01)
MaxSiblings == 3   \* files in a listing drawn in DedupInit

Plain(stem, ext) == stem \o <<".">> \o ext
Suffixed(stem, delim, run, ext) == stem \o delim \o run \o <<".">> \o ext
Prefixed(stem, delim, run, ext) == run \o delim \o stem \o <<".">> \o ext

Delims == {<<"-">>, <<"_">>}
Runs == {NumToStr(n) : n \in 1..MaxNum}

\* <<stem, ext>>: a plain extension, an extension holding "+", and a stem
\* that ends with the other stem
CandidateParts ==
    {<<(<<"a">>), (<<"p">>)>>, <<(<<"a">>), (<<"p", "+">>)>>,
     <<(<<"b", "a">>), (<<"p">>)>>}

Candidates == {Plain(c[1], c[2]) : c \in CandidateParts}

Pool ==
    Candidates
    \cup {Suffixed(<<"a">>, <<"-">>, r, <<"p">>) :
            r \in Runs \cup {<<"9">>, <<"0", "1">>}}
    \cup {Prefixed(<<"a">>, <<"-">>, r, <<"p">>) : r \in Runs}
    \cup {Suffixed(<<"a">>, <<"-">>, <<"1">>, <<"p", "+">>),
          Suffixed(<<"a">>, <<"-">>, <<"2">>, <<"p", "+">>),
          Prefixed(<<"a">>, <<"-">>, <<"1">>, <<"p", "+">>),
          Suffixed(<<"a">>, <<"-">>, <<"1">>, <<"p", "p">>),
          Suffixed(<<"a">>, <<"_">>, <<"1">>, <<"p">>),
          Prefixed(<<"a">>, <<"_">>, <<"1">>, <<"p">>),
          Suffixed(<<"b", "a">>, <<"-">>, <<"1">>, <<"p">>)}

Listings == {L \in SUBSET Pool : Cardinality(L) <= MaxSiblings}

Policies ==
    {[DEFAULT_SETTINGS EXCEPT !.dupNumberAtStart = s,
                              !.dupNumberDelimiter = d,
                              !.dupNumberAlways = a] :
        s \in BOOLEAN, d \in Delims, a \in BOOLEAN}

----------------------------------------------------------------------------
(* deduplicateNewName on its own: one resolution of a candidate against a  *)
(* listing, then a second one against the listing plus the first result.   *)

NoResult == [name |-> <<>>, stem |-> <<>>, extension |-> <<>>]

NoFiles == [n \in {} |-> ""]
NoTasks == [t \in {} |-> ""]
NoActiveFile ==
    [basename |-> <<>>, dirName |-> <<>>,
     cache |-> [present |-> FALSE, hasFrontmatter |-> FALSE,
                imageNameKey |-> <<>>, headings |-> <<>>]]
NoProbe == [avif |-> FALSE, webp |-> FALSE]
NoCall == [pc |-> "off"]
NoBatch == [pc |-> "off"]

DedupInit ==
    /\ settings \in Policies
    /\ dd \in {[pc |-> "init", newName |-> c, listed |-> L,
                numbers |-> {},
                first |-> NoResult, second |-> NoResult] :
                 c \in Candidates, L \in Listings}
    /\ vault = NoFiles
    /\ task = NoTasks
    /\ isProcessingCompression = FALSE
    /\ activeFile = NoActiveFile
    /\ probe = NoProbe
    /\ modals = <<>>
    /\ call = NoCall
    /\ batch = NoBatch
    /\ loaded = TRUE

\* the dupNameNumbers array of a call, as a set
ScannedNumbers(newName, listed, st) ==
    LET newNameExt == PathExtension(newName)
        newNameStem == SubSeq(newName, 1, Len(newName) - Len(newNameExt) - 1)
    IN  DupNameNumbers(newName, listed,
            DupNameRegex(newNameStem, newNameExt, st.dupNumberDelimiter,
                         st.dupNumberAtStart))

Resolve ==
    /\ dd.pc = "init"
    /\ dd' = [dd EXCEPT
                !.pc = "first",
                !.numbers = ScannedNumbers(dd.newName, dd.listed, settings),
                !.first = deduplicateNewName(dd.newName, dd.listed, settings)]
    /\ UNCHANGED <<settings, vault, task, isProcessingCompression,
                   activeFile, probe,
                   modals, call, batch, loaded>>

ResolveAgain ==
    /\ dd.pc = "first"
    /\ dd' = [dd EXCEPT
                !.pc = "second",
                !.second = deduplicateNewName(
                              dd.newName, dd.listed \cup {dd.first.name},
                              settings)]
    /\ UNCHANGED <<settings, vault, task, isProcessingCompression,
                   activeFile, probe,
                   modals, call, batch, loaded>>

DedupNext == Resolve \/ ResolveAgain

DedupSpec == DedupInit /\ [][DedupNext]_vars

----------------------------------------------------------------------------
(* Name generation *)

getFirstHeading_AnyLevel(headings) ==
    IF headings # <<>> THEN headings[1].heading ELSE <<>>

\* getFirstHeading: the text of the first heading of level 1
getFirstHeading(headings) ==
    IF \E i \in 1..Len(headings) : headings[i].level = 1
    THEN headings[CHOOSE i \in 1..Len(headings) :
                    /\ headings[i].level = 1
                    /\ \A j \in 1..(i - 1) : headings[j].level # 1].heading
    ELSE <<>>

\* renderTemplate: a pattern is a sequence of tokens, a variable
\* ("{{fileName}}", ...) or a literal character; each variable is replaced
\* by its value in the context
RECURSIVE renderTemplate(_, _)
renderTemplate(pattern, ctx) ==
    IF pattern = <<>> THEN <<>>
    ELSE (CASE Head(pattern) = "{{imageNameKey}}" -> ctx.imageNameKey
            [] Head(pattern) = "{{fileName}}" -> ctx.fileName
            [] Head(pattern) = "{{dirName}}" -> ctx.dirName
            [] Head(pattern) = "{{firstHeading}}" -> ctx.firstHeading
            [] OTHER -> <<Head(pattern)>>)
         \o renderTemplate(Tail(pattern), ctx)

\* meaninglessRegex, new RegExp(`[${delimiter}\\s]`, 'gm'): the delimiter is
\* put into the character class as it is, so a leading "^" negates the
\* class; the other characters of the delimiter and \s are its members
\* (delimiters with a range x-y, "]" or "\" are not drawn)
MeaninglessNegated(delimiter) == delimiter # <<>> /\ delimiter[1] = "^"

MeaninglessMembers(delimiter) ==
    {delimiter[i] :
        i \in (IF MeaninglessNegated(delimiter) THEN 2 ELSE 1)
                ..Len(delimiter)} \cup {" "}

MatchesMeaningless(c, delimiter) ==
    IF MeaninglessNegated(delimiter)
    THEN c \notin MeaninglessMembers(delimiter)
    ELSE c \in MeaninglessMembers(delimiter)

\* stem.replace(meaninglessRegex, '')
StripMeaningless(stem, delimiter) ==
    LET keep(c) == ~MatchesMeaningless(c, delimiter)
    IN  SelectSeq(stem, keep)

generateNewName_PngExt(fileExt, af, st) ==
    LET imageNameKey ==
            IF af.cache.present /\ af.cache.hasFrontmatter
            THEN af.cache.imageNameKey ELSE <<>>
        firstHeading ==
            IF af.cache.present THEN getFirstHeading(af.cache.headings)
            ELSE <<>>
        stem == renderTemplate(st.imageNamePattern,
                    [imageNameKey |-> imageNameKey,
                     fileName |-> af.basename,
                     dirName |-> af.dirName,
                     firstHeading |-> firstHeading])
    IN  [stem |-> stem,
         newName |-> stem \o <<".">> \o <<"p", "n", "g">>,
         isMeaningful |-> StripMeaningless(stem, st.dupNumberDelimiter) # <<>>]

generateNewName(fileExt, af, st) ==
    LET imageNameKey ==
            IF af.cache.present /\ af.cache.hasFrontmatter
            THEN af.cache.imageNameKey ELSE <<>>
        firstHeading ==
            IF af.cache.present THEN getFirstHeading(af.cache.headings)
            ELSE <<>>
        stem == renderTemplate(st.imageNamePattern,
                    [imageNameKey |-> imageNameKey,
                     fileName |-> af.basename,
                     dirName |-> af.dirName,
                     firstHeading |-> firstHeading])
    IN  [stem |-> stem,
         newName |-> stem \o <<".">> \o fileExt,
         isMeaningful |-> StripMeaningless(stem, st.dupNumberDelimiter) # <<>>]

----------------------------------------------------------------------------
(* The vault and the tasks *)

MaxTasks == 3    \* files that arrive one after another (SeqSpec)
MaxPastes == 2   \* files that arrive while calls may overlap (Spec)

Tasks == 1..MaxTasks

PASTED_IMAGE_PREFIX == <<"P">>

PNG == <<"p", "n", "g">>
WEBP == <<"w", "e", "b", "p">>
JPG == <<"j", "p", "g">>
AVIF == <<"a", "v", "i", "f">>
AUTO == <<"a", "u", "t", "o">>

\* the name the host gives the t-th pasted or dropped file
PastedName(t, ext) ==
    PASTED_IMAGE_PREFIX \o <<DigitChars[t + 1]>> \o <<".">> \o ext

\* extensions of the files that arrive: a pasted image, a dropped file whose
\* extension holds a regex metacharacter
PasteExts == {PNG, <<"p", "+">>}

Listing == DOMAIN vault

\* the image of file t, encoded as enc
Bytes(t, enc) == [of |-> t, enc |-> enc]

\* a file as the create handler sees it: its name, its extension, and
\* whether it was created within the last second (file.stat.ctime)
NoFile == [name |-> <<>>, extension |-> <<>>, recent |-> FALSE]

PastedFile(t, ext) ==
    [name |-> PastedName(t, ext), extension |-> ext, recent |-> TRUE]

IdleTask ==
    [pc |-> "idle", via |-> "none", created |-> NoFile,
     file |-> <<>>, origExt |-> <<>>,
     stem |-> <<>>, newName |-> <<>>, target |-> <<>>, fmt |-> <<>>,
     compressed |-> <<>>, isMeaningful |-> TRUE, confirmed |-> FALSE,
     convFailed |-> FALSE, commands |-> 0,
     notice |-> "none", lineEdited |-> FALSE, rehandled |-> FALSE]

\* vault.rename / fileManager.renameFile taking effect
Renamed(v, from, to) ==
    [n \in (DOMAIN v \ {from}) \cup {to} |->
        IF n = to THEN v[from] ELSE v[n]]

\* the host refuses a rename of a missing file or onto an existing path
CanRename(v, from, to) == from \in DOMAIN v /\ to \notin DOMAIN v

InFlight(t) ==
    task[t].pc \notin {"idle", "modal", "ignored", "noactive", "done",
                       "failed", "cancelled", "skipped"}

startRenameProcess_AlwaysPrefills(t, f) ==
    LET gen == generateNewName(f.extension, activeFile, settings)
        seen == [IdleTask EXCEPT !.created = f, !.file = f.name,
                                 !.origExt = f.extension]
    IN  IF activeFile = NoActiveFile
        THEN [seen EXCEPT !.pc = "noactive"]
        ELSE IF ~gen.isMeaningful \/ ~settings.autoRename
        THEN [seen EXCEPT
                !.pc = "modal", !.via = "paste",
                !.stem = gen.stem,
                !.isMeaningful = gen.isMeaningful]
        ELSE [seen EXCEPT
                !.pc = "list", !.via = "paste",
                !.stem = gen.stem,
                !.newName = gen.newName,
                !.isMeaningful = gen.isMeaningful]

\* startRenameProcess(file, autoRename), up to the first await: a notice
\* when there is no active file, the modal, or renameFile suspended in
\* deduplicateNewName's list()
startRenameProcess(t, f) ==
    LET gen == generateNewName(f.extension, activeFile, settings)
        seen == [IdleTask EXCEPT !.created = f, !.file = f.name,
                                 !.origExt = f.extension]
    IN  IF activeFile = NoActiveFile
        THEN [seen EXCEPT !.pc = "noactive"]
        ELSE IF ~gen.isMeaningful \/ ~settings.autoRename
        THEN [seen EXCEPT
                !.pc = "modal", !.via = "paste",
                !.stem = IF gen.isMeaningful THEN gen.stem ELSE <<>>,
                !.isMeaningful = gen.isMeaningful]
        ELSE [seen EXCEPT
                !.pc = "list", !.via = "paste",
                !.stem = gen.stem,
                !.newName = gen.newName,
                !.isMeaningful = gen.isMeaningful]

isPastedImage(f) ==
    /\ Len(f.name) >= Len(PASTED_IMAGE_PREFIX)
    /\ SubSeq(f.name, 1, Len(PASTED_IMAGE_PREFIX)) = PASTED_IMAGE_PREFIX

isMarkdownFile(f) == f.extension = <<"m", "d">>

\* new RegExp(pattern).test(file.extension), for a pattern of literal
\* characters: an unanchored match
testExcludeExtension(f, st) ==
    /\ st.excludeExtensionPattern # <<>>
    /\ Contains(f.extension, st.excludeExtensionPattern)

\* the create handler as a decision: TRUE when it calls startRenameProcess
CreateHandlerStarts_IgnoresAge(f, st, processing) ==
    /\ ~isMarkdownFile(f)
    /\ ~processing
    /\ \/ isPastedImage(f)
       \/ st.handleAllAttachments /\ ~testExcludeExtension(f, st)

CreateHandlerStarts(f, st, processing) ==
    /\ f.recent
    /\ ~isMarkdownFile(f)
    /\ ~processing
    /\ \/ isPastedImage(f)
       \/ st.handleAllAttachments /\ ~testExcludeExtension(f, st)

\* the vault's create event for file f, the t-th file to arrive, reaching
\* the handler onload registered
CreateEvent(t, f) ==
    /\ loaded
    /\ task[t].pc = "idle"
    /\ \A u \in 1..(t - 1) : task[u].pc # "idle"
    /\ f.name \notin Listing
    /\ vault' = [n \in Listing \cup {f.name} |->
                    IF n = f.name THEN Bytes(t, f.extension) ELSE vault[n]]
    /\ LET after ==
               IF CreateHandlerStarts(f, settings, isProcessingCompression)
               THEN startRenameProcess(t, f)
               ELSE [IdleTask EXCEPT !.pc = "ignored", !.created = f,
                                     !.file = f.name,
                                     !.origExt = f.extension]
       IN  /\ task' = [task EXCEPT ![t] = after]
           /\ modals' = IF after.pc = "modal" THEN Append(modals, t)
                        ELSE modals
    /\ UNCHANGED <<settings, dd, isProcessingCompression, activeFile, probe,
                   call, batch, loaded>>

\* renameFile resolving against a listing taken before the earlier renames
\* were committed
ListDir_StaleListing(t) ==
    /\ task[t].pc = "list"
    /\ task' = [task EXCEPT
                  ![t].target =
                      deduplicateNewName(
                          task[t].newName,
                          {n \in Listing :
                              \A u \in Tasks :
                                  task[u].pc = "done" => n # task[u].file},
                          settings).name,
                  ![t].notice = "none",
                  ![t].lineEdited = FALSE,
                  ![t].pc = "rename"]
    /\ UNCHANGED <<settings, dd, vault, isProcessingCompression, activeFile,
                   probe, modals, call, batch, loaded>>

\* renameFile: adapter.list() resolves, the name is deduplicated against the
\* listing of this moment and fileManager.renameFile is called
ListDir(t) ==
    /\ task[t].pc = "list"
    /\ task' = [task EXCEPT
                  ![t].target =
                      deduplicateNewName(task[t].newName, Listing,
                                         settings).name,
                  ![t].notice = "none",
                  ![t].lineEdited = FALSE,
                  ![t].pc = "rename"]
    /\ UNCHANGED <<settings, dd, vault, isProcessingCompression, activeFile,
                   probe,
                   modals, call, batch, loaded>>

\* the replaceCurrentLine argument of the renameFile call of task t: true
\* from startRenameProcess and from the modal, false from
\* batchRenameAllImages
replaceCurrentLine(t) == task[t].via \in {"paste", "modal"}

\* renameFile going on to edit the line and to announce the rename after
\* fileManager.renameFile has rejected
CommitRename_EditsLineOnFailure(t) ==
    /\ task[t].pc = "rename"
    /\ IF CanRename(vault, task[t].file, task[t].target)
       THEN /\ vault' = Renamed(vault, task[t].file, task[t].target)
            /\ task' = [task EXCEPT
                          ![t].file = task[t].target,
                          ![t].pc = "done",
                          ![t].lineEdited = replaceCurrentLine(t),
                          ![t].notice =
                              IF /\ replaceCurrentLine(t)
                                 /\ ~settings.disableRenameNotice
                              THEN "renamed" ELSE "none"]
       ELSE /\ task' = [task EXCEPT
                          ![t].pc = "failed",
                          ![t].lineEdited = replaceCurrentLine(t),
                          ![t].notice =
                              IF /\ replaceCurrentLine(t)
                                 /\ ~settings.disableRenameNotice
                              THEN "renamed" ELSE "failed"]
            /\ UNCHANGED vault
    /\ UNCHANGED <<settings, dd, isProcessingCompression, activeFile, probe,
                   modals, call, batch, loaded>>

\* renameFile: fileManager.renameFile resolves or rejects. Resolved, the
\* line at the cursor is replaced through the active editor and the rename
\* is announced, both only when replaceCurrentLine is set; rejected, the
\* failure is announced and the error is thrown (pc "failed"), which skips
\* the rest of the function
CommitRename(t) ==
    /\ task[t].pc = "rename"
    /\ IF CanRename(vault, task[t].file, task[t].target)
       THEN /\ vault' = Renamed(vault, task[t].file, task[t].target)
            /\ task' = [task EXCEPT
                          ![t].file = task[t].target,
                          ![t].pc = "done",
                          ![t].lineEdited = replaceCurrentLine(t),
                          ![t].notice =
                              IF /\ replaceCurrentLine(t)
                                 /\ ~settings.disableRenameNotice
                              THEN "renamed" ELSE "none"]
       ELSE /\ task' = [task EXCEPT ![t].pc = "failed",
                                    ![t].notice = "failed"]
            /\ UNCHANGED vault
    /\ UNCHANGED <<settings, dd, isProcessingCompression, activeFile, probe,
                   modals, call, batch, loaded>>

----------------------------------------------------------------------------
(* Format selection and conversion *)

getOptimalDefaultFormat_AvifForGif(originalExtension, st, pr) ==
    IF ~st.enableCompression THEN originalExtension
    ELSE IF st.outputFormat # AUTO THEN st.outputFormat
    ELSE IF st.smartFormatSelection
         THEN IF pr.avif THEN AVIF
              ELSE IF pr.webp THEN WEBP
              ELSE JPG
    ELSE WEBP

getOptimalDefaultFormat(originalExtension, st, pr) ==
    IF ~st.enableCompression THEN originalExtension
    ELSE IF st.outputFormat # AUTO THEN st.outputFormat
    ELSE IF st.smartFormatSelection
         THEN IF pr.avif /\ originalExtension # <<"g", "i", "f">> THEN AVIF
              ELSE IF pr.webp THEN WEBP
              ELSE JPG
    ELSE WEBP

getExtensionFromFormat(format) ==
    IF format \in {JPG, WEBP, AVIF, PNG} THEN format ELSE JPG

\* path.replace(/\.[^.]+$/, '.' + newExtension)
ReplaceExtension(path, newExtension) ==
    IF DotPositions(path) # {} /\ MaxOf(DotPositions(path)) < Len(path)
    THEN SubSeq(path, 1, MaxOf(DotPositions(path))) \o newExtension
    ELSE path

\* /jpe?g|png|gif|tiff|webp|avif/.exec(file.extension), batchConvertAllImages
MatchesConvertExt(ext) ==
    \E w \in {JPG, <<"j", "p", "e", "g">>, PNG, <<"g", "i", "f">>,
              <<"t", "i", "f", "f">>, WEBP, AVIF} : Contains(ext, w)

\* /jpe?g|png|gif|tiff|webp/.exec(file.extension), batchRenameAllImages
MatchesRenameExt(ext) ==
    \E w \in {JPG, <<"j", "p", "e", "g">>, PNG, <<"g", "i", "f">>,
              <<"t", "i", "f", "f">>, WEBP} : Contains(ext, w)

\* the modal offering its format dropdown whatever the settings say
ModalFormats_AlwaysDropdown(ext) ==
    {ext, WEBP, getOptimalDefaultFormat(ext, settings, probe)}

\* the formats the operator can leave or pick in the modal's dropdown; with
\* compression disabled there is no dropdown and the default stays
ModalFormats(ext) ==
    IF settings.enableCompression
    THEN {ext, WEBP, getOptimalDefaultFormat(ext, settings, probe)}
    ELSE {getOptimalDefaultFormat(ext, settings, probe)}

\* what the operator can leave or type in the modal's name input
ModalStems(t) == {task[t].stem, <<"a">>, <<>>}

\* compressToFormat returned null, seen from its caller: the modal's
\* callback throws and its catch falls back to renameFile(file,
\* confirmedName); the batch conversions show a notice or go on
AfterNull(t) ==
    IF task[t].via = "modal"
    THEN [task[t] EXCEPT !.pc = "list", !.convFailed = TRUE]
    ELSE [task[t] EXCEPT !.pc = "skipped", !.convFailed = TRUE]

\* this.modals.splice(this.modals.indexOf(modal), 1): indexOf gives -1 for
\* a modal that is not in the array, and splice(-1, 1) removes the last one
CloseModal(ms, t) ==
    LET at == {k \in 1..Len(ms) : ms[k] = t}
        idx == IF at # {} THEN CHOOSE k \in at : \A j \in at : k <= j
               ELSE Len(ms)
    IN  [k \in 1..(IF ms = <<>> THEN 0 ELSE Len(ms) - 1) |->
            IF k < idx THEN ms[k] ELSE ms[k + 1]]

\* the rename modal confirmed with Enter or with the Rename button: doRename
\* and the callback of openRenameModal up to its first await
ModalConfirm(t, stem, fmt, how) ==
    /\ task[t].pc = "modal"
    /\ how = "enter" => stem # <<>>
    /\ LET ext == task[t].origExt
           finalName == stem \o <<".">> \o fmt
       IN  IF fmt # ext
           THEN /\ task' = [task EXCEPT
                              ![t].pc = "read", ![t].via = "modal",
                              ![t].stem = stem, ![t].fmt = fmt,
                              ![t].newName = finalName,
                              ![t].confirmed = TRUE]
                /\ isProcessingCompression' = TRUE
           ELSE /\ task' = [task EXCEPT
                              ![t].pc = "list", ![t].via = "modal",
                              ![t].stem = stem, ![t].fmt = fmt,
                              ![t].newName = finalName,
                              ![t].confirmed = TRUE]
                /\ UNCHANGED isProcessingCompression
    /\ modals' = CloseModal(modals, t)
    /\ UNCHANGED <<settings, dd, vault, activeFile, probe, call, batch, loaded>>

\* the Cancel button, or the modal closed, with renameFunc not called:
\* close() runs onClose, whose onCloseExtra splices the modal out
ModalCancel_AlsoDeletes(t) ==
    /\ task[t].pc = "modal"
    /\ task' = [task EXCEPT ![t].pc = "cancelled"]
    /\ modals' = CloseModal(modals, t)
    /\ vault' = [n \in Listing \ {task[t].file} |-> vault[n]]
    /\ UNCHANGED <<settings, dd, isProcessingCompression, activeFile,
                   probe, call, batch, loaded>>

ModalCancel(t) ==
    /\ task[t].pc = "modal"
    /\ task' = [task EXCEPT ![t].pc = "cancelled"]
    /\ modals' = CloseModal(modals, t)
    /\ UNCHANGED <<settings, dd, vault, isProcessingCompression, activeFile,
                   probe, call, batch, loaded>>

\* this.modals.map(modal => modal.close()) from index k on: map visits the
\* indices 0..n-1, n being the length when it began, and skips an index the
\* array no longer has; every close() splices the array it is iterating
RECURSIVE UnloadFrom(_, _, _)
UnloadFrom(ms, k, n) ==
    IF k >= n THEN ms
    ELSE IF k < Len(ms) THEN UnloadFrom(CloseModal(ms, ms[k + 1]), k + 1, n)
    ELSE UnloadFrom(ms, k + 1, n)

\* onunload: the handlers are unregistered and the modals the map reaches
\* are closed, their renameFunc not called
Onunload ==
    /\ loaded
    /\ loaded' = FALSE
    /\ modals' = UnloadFrom(modals, 0, Len(modals))
    /\ task' = [t \in Tasks |->
                  IF /\ \E k \in 1..Len(modals) : modals[k] = t
                     /\ \A k \in 1..Len(modals') : modals'[k] # t
                  THEN [task[t] EXCEPT !.pc = "cancelled"]
                  ELSE task[t]]
    /\ UNCHANGED <<settings, dd, vault, isProcessingCompression, activeFile,
                   probe, call, batch>>

\* compressToFormat: readBinary resolves, or rejects for a missing file
ReadBinaryDone(t) ==
    /\ task[t].pc = "read"
    /\ IF task[t].file \in Listing
       THEN /\ task' = [task EXCEPT ![t].pc = "blob"]
            /\ UNCHANGED isProcessingCompression
       ELSE /\ task' = [task EXCEPT ![t] = AfterNull(t)]
            /\ isProcessingCompression' = FALSE
    /\ UNCHANGED <<settings, dd, vault, activeFile, probe,
                   modals, call, batch, loaded>>

\* compressToFormat: compressBlob resolves with a blob, or with null (the
\* image could not be decoded, or canvas.toBlob gave none); on null the
\* function returns from inside the try block, past the flag's reset
CompressBlobDone(t, ok) ==
    /\ task[t].pc = "blob"
    /\ task' = [task EXCEPT ![t] =
                  IF ok THEN [task[t] EXCEPT !.pc = "delete"]
                  ELSE AfterNull(t)]
    /\ UNCHANGED <<settings, dd, vault, isProcessingCompression, activeFile,
                   probe,
                   modals, call, batch, loaded>>

\* compressToFormat: vault.delete(file) resolves
DeleteDone(t) ==
    /\ task[t].pc = "delete"
    /\ IF task[t].file \in Listing
       THEN /\ vault' = [n \in Listing \ {task[t].file} |-> vault[n]]
            /\ task' = [task EXCEPT ![t].pc = "create"]
            /\ UNCHANGED isProcessingCompression
       ELSE /\ task' = [task EXCEPT ![t] = AfterNull(t)]
            /\ isProcessingCompression' = FALSE
            /\ UNCHANGED vault
    /\ UNCHANGED <<settings, dd, activeFile, probe,
                   modals, call, batch, loaded>>

\* the caller of compressToFormat going on with the new file: the modal's
\* callback with the confirmed name and the new extension, the batch
\* conversions with generateNewName(compressedFile), of which they read
\* newName only
AfterCompressed(t, newPath) ==
    IF task[t].via = "modal"
    THEN [task[t] EXCEPT
            !.pc = "clist", !.compressed = newPath,
            !.newName = ReplaceExtension(task[t].newName, <<>>)
                            \o task[t].fmt]
    ELSE LET gen == generateNewName(PathExtension(newPath), activeFile,
                                    settings)
         IN  [task[t] EXCEPT
                !.pc = "clist", !.compressed = newPath,
                !.stem = gen.stem, !.newName = gen.newName,
                !.isMeaningful = gen.isMeaningful]

\* the task slots no create event has used yet
IdleSlots == {u \in Tasks : task[u].pc = "idle"}

\* compressToFormat: createBinary(newPath) resolves, or rejects because the
\* path exists. The new file's create event reaches the create handler
\* while createBinary is pending, before this call resets the flag: the
\* handler reads the flag as the other conversions have left it, and when
\* it starts a rename process for the new file, that process takes the
\* next free slot
CreateBinaryDone(t) ==
    /\ task[t].pc = "create"
    /\ LET newExt == getExtensionFromFormat(task[t].fmt)
           newPath == ReplaceExtension(task[t].file, newExt)
           f == [name |-> newPath, extension |-> newExt, recent |-> TRUE]
           starts == /\ loaded
                     /\ CreateHandlerStarts(f, settings,
                                            isProcessingCompression)
           slots == IF starts THEN IdleSlots ELSE {}
           u == IF slots = {} THEN 0
                ELSE CHOOSE k \in slots : \A j \in slots : k <= j
       IN  IF newPath \notin Listing
           THEN /\ vault' = [n \in Listing \cup {newPath} |->
                               IF n = newPath THEN Bytes(t, task[t].fmt)
                               ELSE vault[n]]
                /\ task' = [v \in Tasks |->
                              IF v = t
                              THEN [AfterCompressed(t, newPath)
                                      EXCEPT !.rehandled = starts]
                              ELSE IF v = u THEN startRenameProcess(u, f)
                              ELSE task[v]]
                /\ modals' = IF u # 0 /\ startRenameProcess(u, f).pc = "modal"
                             THEN Append(modals, u)
                             ELSE modals
           ELSE /\ task' = [task EXCEPT ![t] = AfterNull(t)]
                /\ UNCHANGED <<vault, modals>>
    /\ isProcessingCompression' = FALSE
    /\ UNCHANGED <<settings, dd, activeFile, probe, call, batch, loaded>>

\* after a conversion: adapter.list() resolves, the new name of the
\* compressed file is deduplicated and its rename is called
CompressedListDir(t) ==
    /\ task[t].pc = "clist"
    /\ task' = [task EXCEPT
                  ![t].target =
                      deduplicateNewName(task[t].newName, Listing,
                                         settings).name,
                  ![t].pc = "crename"]
    /\ UNCHANGED <<settings, dd, vault, isProcessingCompression, activeFile,
                   probe,
                   modals, call, batch, loaded>>

\* after a conversion: the rename of the compressed file resolves or
\* rejects; the modal's callback catches the rejection and falls back to
\* renameFile(file, confirmedName), the batch conversions do not catch it
CompressedCommitRename(t) ==
    /\ task[t].pc = "crename"
    /\ IF CanRename(vault, task[t].compressed, task[t].target)
       THEN /\ vault' = Renamed(vault, task[t].compressed, task[t].target)
            /\ task' = [task EXCEPT ![t].file = task[t].target,
                                    ![t].compressed = task[t].target,
                                    ![t].pc = "done"]
       ELSE /\ task' = [task EXCEPT ![t].pc =
                          IF task[t].via = "modal" THEN "list"
                          ELSE "failed"]
            /\ UNCHANGED vault
    /\ UNCHANGED <<settings, dd, isProcessingCompression, activeFile, probe,
                   modals, call, batch, loaded>>

----------------------------------------------------------------------------
(* The batch commands, one embedded image at a time *)

MaxCommands == 1   \* batch commands run on one image

\* an image embedded in the document with no call in flight on it
Embedded(t) ==
    /\ task[t].pc \in {"cancelled", "done"}
    /\ task[t].file \in Listing
    /\ task[t].commands < MaxCommands

\* batchConvertAllImages, the loop body up to compressToFormat's first
\* await, for an image that is not in its optimal format
BatchConvertAll(t) ==
    /\ Embedded(t)
    /\ LET ext == PathExtension(task[t].file)
           optimalFormat == getOptimalDefaultFormat(ext, settings, probe)
       IN  /\ MatchesConvertExt(ext)
           /\ ext # optimalFormat
           /\ task' = [task EXCEPT
                         ![t].pc = "read", ![t].via = "batchConvertAll",
                         ![t].fmt = optimalFormat,
                         ![t].confirmed = FALSE,
                         ![t].commands = @ + 1]
    /\ isProcessingCompression' = TRUE
    /\ UNCHANGED <<settings, dd, vault, activeFile, probe,
                   modals, call, batch, loaded>>

\* ImageBatchConversionModal.convertAll calling, for an image matchImageNames
\* kept (an image extension, not yet in the target format), the callback of
\* openBatchConversionModal, up to compressToFormat's first await: the
\* operator chose the files and the target format, not the names
BatchConversionCallback(t, targetFormat) ==
    /\ Embedded(t)
    /\ MatchesConvertExt(PathExtension(task[t].file))
    /\ PathExtension(task[t].file) # targetFormat
    /\ task' = [task EXCEPT
                  ![t].pc = "read", ![t].via = "batchConversionModal",
                  ![t].fmt = targetFormat,
                  ![t].confirmed = FALSE,
                  ![t].commands = @ + 1]
    /\ isProcessingCompression' = TRUE
    /\ UNCHANGED <<settings, dd, vault, activeFile, probe,
                   modals, call, batch, loaded>>

\* batchRenameAllImages, the loop body for an image whose generated name is
\* meaningful, up to renameFile's first await
BatchRenameAll(t) ==
    /\ Embedded(t)
    /\ LET ext == PathExtension(task[t].file)
           gen == generateNewName(ext, activeFile, settings)
       IN  /\ MatchesRenameExt(ext)
           /\ gen.isMeaningful
           /\ task' = [task EXCEPT
                         ![t].pc = "list", ![t].via = "batchRenameAll",
                         ![t].stem = gen.stem,
                         ![t].newName = gen.newName,
                         ![t].isMeaningful = gen.isMeaningful,
                         ![t].confirmed = FALSE,
                         ![t].commands = @ + 1]
    /\ UNCHANGED <<settings, dd, vault, isProcessingCompression, activeFile,
                   probe,
                   modals, call, batch, loaded>>

----------------------------------------------------------------------------
(* The plugin at work: settings, the active document, an empty attachment  *)
(* directory or one that holds earlier files                               *)

Patterns == {<<"{{imageNameKey}}">>, <<"{{fileName}}">>}

ActiveFiles ==
    {[basename |-> <<"b", "a">>, dirName |-> <<"d">>,
      cache |-> [present |-> TRUE, hasFrontmatter |-> k # <<>>,
                 imageNameKey |-> k,
                 headings |-> <<[level |-> 2, heading |-> <<"h">>]>>]] :
        k \in {<<>>, <<"a">>}}

SystemSettings ==
    {[DEFAULT_SETTINGS EXCEPT !.imageNamePattern = p,
                              !.autoRename = r,
                              !.dupNumberAlways = a] :
        p \in Patterns, r \in BOOLEAN, a \in BOOLEAN}

\* the attachment directory at the start: empty, or holding the file an
\* earlier conversion of "Pasted image 1" left behind
InitialVaults ==
    {NoFiles, [n \in {PastedName(1, WEBP)} |-> Bytes(0, WEBP)]}

NoDedup ==
    [pc |-> "off", newName |-> <<>>, listed |-> {}, numbers |-> {},
     first |-> NoResult, second |-> NoResult]

Init ==
    /\ settings \in SystemSettings
    /\ dd = NoDedup
    /\ vault \in InitialVaults
    /\ task = [t \in Tasks |-> IdleTask]
    /\ isProcessingCompression = FALSE
    /\ activeFile \in ActiveFiles
    /\ probe \in {[avif |-> FALSE, webp |-> TRUE]}
    /\ modals = <<>>
    /\ call = NoCall
    /\ batch = NoBatch
    /\ loaded = TRUE

Next ==
    \E t \in 1..MaxPastes :
        \/ \E ext \in PasteExts : CreateEvent(t, PastedFile(t, ext))
        \/ ListDir(t)
        \/ CommitRename(t)
        \/ \E stem \in ModalStems(t), fmt \in ModalFormats(task[t].origExt),
              how \in {"enter", "button"} : ModalConfirm(t, stem, fmt, how)
        \/ ModalCancel(t)
        \/ ReadBinaryDone(t)
        \/ \E ok \in BOOLEAN : CompressBlobDone(t, ok)
        \/ DeleteDone(t)
        \/ CreateBinaryDone(t)
        \/ CompressedListDir(t)
        \/ CompressedCommitRename(t)
        \/ BatchConvertAll(t)
        \/ BatchConversionCallback(t, JPG)
        \/ BatchRenameAll(t)

Spec == Init /\ [][Next]_vars

\* pastes handled one after another, with either delimiter: an event
\* arrives only when no rename is in flight
SeqInit ==
    /\ settings \in {[st EXCEPT !.dupNumberDelimiter = d] :
                        st \in SystemSettings, d \in Delims}
    /\ dd = NoDedup
    /\ vault = NoFiles
    /\ task = [t \in Tasks |-> IdleTask]
    /\ isProcessingCompression = FALSE
    /\ activeFile \in ActiveFiles
    /\ probe \in {[avif |-> FALSE, webp |-> TRUE]}
    /\ modals = <<>>
    /\ call = NoCall
    /\ batch = NoBatch
    /\ loaded = TRUE

SeqNext ==
    \E t \in Tasks :
        \/ /\ \A u \in Tasks : ~InFlight(u)
           /\ \E ext \in PasteExts : CreateEvent(t, PastedFile(t, ext))
        \/ ListDir(t)
        \/ CommitRename(t)

SeqSpec == SeqInit /\ [][SeqNext]_vars

----------------------------------------------------------------------------
(* The rename modal with compression enabled or disabled, and with an      *)
(* output format set or left to the plugin                                 *)

ModalSettings ==
    {[st EXCEPT !.enableCompression = c, !.outputFormat = o] :
        st \in SystemSettings, c \in BOOLEAN, o \in {AUTO, JPG}}

ModalInit ==
    /\ settings \in ModalSettings
    /\ dd = NoDedup
    /\ vault = NoFiles
    /\ task = [t \in Tasks |-> IdleTask]
    /\ isProcessingCompression = FALSE
    /\ activeFile \in ActiveFiles
    /\ probe \in {[avif |-> FALSE, webp |-> TRUE]}
    /\ modals = <<>>
    /\ call = NoCall
    /\ batch = NoBatch
    /\ loaded = TRUE

ModalNext ==
    \E t \in 1..MaxPastes :
        \/ \E ext \in PasteExts : CreateEvent(t, PastedFile(t, ext))
        \/ ListDir(t)
        \/ CommitRename(t)
        \/ \E stem \in ModalStems(t), fmt \in ModalFormats(task[t].origExt),
              how \in {"enter", "button"} : ModalConfirm(t, stem, fmt, how)
        \/ ModalCancel(t)
        \/ ReadBinaryDone(t)
        \/ \E ok \in BOOLEAN : CompressBlobDone(t, ok)
        \/ DeleteDone(t)
        \/ CreateBinaryDone(t)
        \/ CompressedListDir(t)
        \/ CompressedCommitRename(t)

ModalSpec == ModalInit /\ [][ModalNext]_vars

----------------------------------------------------------------------------
(* The create handler on any file: pasted or not, markdown or not, created *)
(* just now or loaded at start-up, with or without an active document      *)

MD == <<"m", "d">>
PDF == <<"p", "d", "f">>

\* the name of a file that was not pasted
OtherName(t, ext) == <<"f">> \o <<DigitChars[t + 1]>> \o <<".">> \o ext

CreatedFiles(t) ==
    {[name |-> IF pasted THEN PastedName(t, ext) ELSE OtherName(t, ext),
      extension |-> ext, recent |-> r] :
        pasted \in BOOLEAN, ext \in {PNG, MD, PDF}, r \in BOOLEAN}

\* an imageNameKey that is the delimiter gives a stem that is not empty and
\* not meaningful
HandlerActiveFiles ==
    ActiveFiles
    \cup {[basename |-> <<"b", "a">>, dirName |-> <<"d">>,
           cache |-> [present |-> TRUE, hasFrontmatter |-> TRUE,
                      imageNameKey |-> <<"-">>,
                      headings |-> <<>>]],
          NoActiveFile}

HandlerSettings ==
    {[st EXCEPT !.handleAllAttachments = h,
                !.excludeExtensionPattern = x,
                !.disableRenameNotice = d] :
        st \in SystemSettings, h \in BOOLEAN, x \in {<<>>, PNG},
        d \in BOOLEAN}

HandlerInit ==
    /\ settings \in HandlerSettings
    /\ dd = NoDedup
    /\ vault = NoFiles
    /\ task = [t \in Tasks |-> IdleTask]
    /\ isProcessingCompression = FALSE
    /\ activeFile \in HandlerActiveFiles
    /\ probe \in {[avif |-> FALSE, webp |-> TRUE]}
    /\ modals = <<>>
    /\ call = NoCall
    /\ batch = NoBatch
    /\ loaded = TRUE

HandlerNext ==
    \/ \E t \in 1..MaxPastes :
          \/ \E f \in CreatedFiles(t) : CreateEvent(t, f)
          \/ ModalCancel(t)
          \/ ListDir(t)
          \/ CommitRename(t)
    \/ Onunload

HandlerSpec == HandlerInit /\ [][HandlerNext]_vars

----------------------------------------------------------------------------
(* Claims about deduplicateNewName, checked under DedupSpec *)

ddStem == (CHOOSE c \in CandidateParts : Plain(c[1], c[2]) = dd.newName)[1]
ddExt == (CHOOSE c \in CandidateParts : Plain(c[1], c[2]) = dd.newName)[2]

\* stem<delimiter>run.ext or run<delimiter>stem.ext, as the settings say
Numbered(run) ==
    IF settings.dupNumberAtStart
    THEN Prefixed(ddStem, settings.dupNumberDelimiter, run, ddExt)
    ELSE Suffixed(ddStem, settings.dupNumberDelimiter, run, ddExt)

\* the digits of a name of exactly the numbered form of the candidate,
\* <<>> for any other name
RunOf(name) ==
    LET n == Len(name) - Len(ddStem) - Len(settings.dupNumberDelimiter)
                - 1 - Len(ddExt)
        at == IF settings.dupNumberAtStart THEN 0
              ELSE Len(ddStem) + Len(settings.dupNumberDelimiter)
        run == SubSeq(name, at + 1, at + n)
    IN  IF /\ n >= 1
           /\ \A i \in 1..n : IsDigit(run[i])
           /\ name = Numbered(run)
        THEN run ELSE <<>>

NumberOf(name) == IF RunOf(name) = <<>> THEN 0 ELSE parseInt(RunOf(name))

\* C1: the name deduplicateNewName returns is not equal to any file name of
\* the listing it was resolved against.
C1_ResultNotInListing ==
    dd.pc # "init" => dd.first.name \notin dd.listed

C7_UnchangedWhenAbsent ==
    (dd.pc # "init" /\ dd.newName \notin dd.listed
        /\ ~settings.dupNumberAlways)
    => dd.first = [name |-> dd.newName, stem |-> ddStem, extension |-> ddExt]

\* C7 witness: numbered siblings exist, the candidate does not
C7_Witness ==
    /\ dd.pc = "first"
    /\ ~settings.dupNumberAlways
    /\ dd.newName \notin dd.listed
    /\ dd.numbers # {}
    /\ dd.first.name = dd.newName

\* C8: a sibling contributes a number only if its whole name is exactly
\* stem, delimiter, digits and .ext in the order dupNumberAtStart selects,
\* with the candidate's literal stem and extension; the numbers collected
\* are those of such siblings and of no other.
C8_OnlyExactForm ==
    dd.pc # "init"
    => dd.numbers = {NumberOf(s) : s \in {x \in dd.listed : RunOf(x) # <<>>}}

\* C10: resolving the candidate again, against the first listing plus the
\* first result, gives a different name, and a greater number when the
\* first result carries one.
C10_RetryIsGreater ==
    dd.pc = "second"
    => /\ dd.second.name # dd.first.name
       /\ NumberOf(dd.first.name) > 0
            => NumberOf(dd.second.name) > NumberOf(dd.first.name)

----------------------------------------------------------------------------
(* Claims about the rename pathway *)

\* C9: renames run one after another in a directory that starts without
\* stem.ext and its numbered variants, same candidate, dupNumberAlways false,
\* suffix mode: the first commits stem.ext, the k-th after it
\* stem<delimiter>k.ext.
C9_SequentialNumbers ==
    \A t \in Tasks :
        ( /\ ~settings.dupNumberAlways
          /\ ~settings.dupNumberAtStart
          /\ \A u \in 1..t :
                /\ task[u].via = "paste"
                /\ task[u].pc \in {"done", "failed"}
                /\ task[u].newName = task[t].newName )
        => /\ task[t].pc = "done"
           /\ task[t].file =
                IF t = 1 THEN Plain(task[t].stem, task[t].origExt)
                ELSE Suffixed(task[t].stem, settings.dupNumberDelimiter,
                              NumToStr(t - 1), task[t].origExt)

Resolved(t) == task[t].pc \in {"rename", "done", "failed"}

\* C2: pastes fired in rapid succession with auto-rename on and the same
\* generated candidate: no two of the overlapping renames resolve to the
\* same target name, and none of them fails.
C2_RapidPastes ==
    \A t, u \in Tasks :
        ( /\ t # u
          /\ task[t].via = "paste" /\ task[u].via = "paste"
          /\ Resolved(t) /\ Resolved(u)
          /\ task[t].newName = task[u].newName )
        => /\ task[t].target # task[u].target
           /\ task[t].pc # "failed"

\* C3: the original of a conversion is never deleted before the replacement
\* is written: in every state, the image of a file that has arrived is in
\* the vault, as the original or as the converted file.
C3_OriginalKept ==
    \A t \in Tasks :
        task[t].pc # "idle" => \E n \in Listing : vault[n].of = t

\* C4: when the conversion asked for in the rename modal fails, the
\* fallback renames the original, bytes unchanged, to the confirmed stem
\* (numbered if need be) with its original extension.
C4_FallbackPlainRename ==
    \A t \in Tasks :
        (task[t].via = "modal" /\ task[t].convFailed /\ task[t].pc = "done")
        => /\ task[t].file \in Listing
           /\ vault[task[t].file] = Bytes(t, task[t].origExt)
           /\ PathExtension(task[t].file) = task[t].origExt
           /\ \/ task[t].file = Plain(task[t].stem, task[t].origExt)
              \/ \E k \in 1..(MaxTasks + MaxNum) :
                    task[t].file \in
                        {Suffixed(task[t].stem, settings.dupNumberDelimiter,
                                  NumToStr(k), task[t].origExt),
                         Prefixed(task[t].stem, settings.dupNumberDelimiter,
                                  NumToStr(k), task[t].origExt)}

\* C5: a name generateNewName reports as not meaningful is never applied as
\* a rename without the operator's confirmation, on any path.
C5_NotMeaningfulNotApplied ==
    \A t \in Tasks :
        (task[t].pc \in {"rename", "crename", "done"} /\ ~task[t].isMeaningful)
        => task[t].confirmed

----------------------------------------------------------------------------
(* The batch loops over the embeds of the active document:                 *)
(* ImageBatchRenameModal.renameAll over the tasks of matchImageNames, and  *)
(* batchRenameAllImages.  Each iteration awaits renameFile.                *)

MaxEmbeds == 3   \* embeds in the active document

\* an embed whose link resolves to no file
MissingLink == <<>>

\* two pasted images, an attachment that is not an image, and an image
\* that has the name the pattern {{fileName}} generates
BatchFiles ==
    {PastedName(1, PNG), PastedName(2, PNG), OtherName(3, PDF),
     Plain(<<"b", "a">>, PNG)}

BatchVault ==
    [n \in BatchFiles |->
        Bytes(CHOOSE t \in 1..4 : n \in {PastedName(t, PNG),
                                          OtherName(t, PDF),
                                          IF t = 4
                                          THEN Plain(<<"b", "a">>, PNG)
                                          ELSE <<>>},
              PathExtension(n))]

\* fileCache.embeds, each resolved by getFirstLinkpathDest: the documents
\* that embed each file at most once, and links that resolve to nothing
EmbedLists ==
    {e \in UNION {[1..n -> BatchFiles \cup {MissingLink}] :
                    n \in 1..MaxEmbeds} :
        \A i, j \in DOMAIN e : i # j => e[i] # e[j]}

\* stem.replace(namePatternRegex, nameReplace) for a pattern of one literal
\* character, with the g flag
RECURSIVE ReplaceEach(_, _, _)
ReplaceEach(str, ch, by) ==
    IF str = <<>> THEN <<>>
    ELSE (IF Head(str) = ch THEN by ELSE <<Head(str)>>)
         \o ReplaceEach(Tail(str), ch, by)

Basename(name) ==
    SubSeq(name, 1, Len(name) - Len(PathExtension(name)) - 1)

\* ImageBatchRenameModal.matchImageNames with an empty extPattern: the
\* rename tasks for the embeds that resolve to a file whose stem matches
\* namePattern
RECURSIVE matchImageNames(_, _, _)
matchImageNames(embeds, namePattern, nameReplace) ==
    IF embeds = <<>> THEN <<>>
    ELSE LET file == Head(embeds)
             rest == matchImageNames(Tail(embeds), namePattern, nameReplace)
         IN  IF file = MissingLink THEN rest
             ELSE IF ~Contains(Basename(file), <<namePattern>>) THEN rest
             ELSE <<[file |-> file,
                     name |-> ReplaceEach(Basename(file), namePattern,
                                          nameReplace)
                              \o <<".">> \o PathExtension(file)]>> \o rest

BatchSettings ==
    {[DEFAULT_SETTINGS EXCEPT !.imageNamePattern = p] : p \in Patterns}

BatchInit ==
    /\ settings \in BatchSettings
    /\ dd = NoDedup
    /\ vault = BatchVault
    /\ task = NoTasks
    /\ isProcessingCompression = FALSE
    /\ activeFile \in ActiveFiles
    /\ probe = NoProbe
    /\ modals = <<>>
    /\ call = NoCall
    /\ batch \in {[pc |-> "idle", cmd |-> "none", embeds |-> e,
                    renameTasks |-> <<>>, i |-> 1, file |-> <<>>,
                    name |-> <<>>, target |-> <<>>, attempted |-> {},
                    renamed |-> {}, committed |-> {}, notices |-> 0,
                    failed |-> FALSE] :
                    e \in EmbedLists}
    /\ loaded = TRUE

\* "Rename all" confirmed in ImageBatchRenameModal: renameAll starts on the
\* tasks matchImageNames has built (name pattern "P", replacement "a")
RenameAllStart ==
    /\ batch.pc = "idle"
    /\ batch' = [batch EXCEPT
                   !.pc = "next", !.cmd = "renameAll",
                   !.renameTasks = matchImageNames(batch.embeds, "P",
                                                   <<"a">>)]
    /\ UNCHANGED <<settings, dd, vault, task, isProcessingCompression,
                   activeFile, probe, modals, call, loaded>>

\* renameAll, the head of its loop: the next task's renameFunc is called,
\* which is renameFile, suspended in deduplicateNewName's list()
RenameAllLoop ==
    /\ batch.pc = "next" /\ batch.cmd = "renameAll"
    /\ batch' =
          IF batch.i > Len(batch.renameTasks)
          THEN [batch EXCEPT !.pc = "finished"]
          ELSE [batch EXCEPT
                  !.pc = "list",
                  !.file = batch.renameTasks[batch.i].file,
                  !.name = batch.renameTasks[batch.i].name,
                  !.attempted = @ \cup {batch.i}]
    /\ UNCHANGED <<settings, dd, vault, task, isProcessingCompression,
                   activeFile, probe, modals, call, loaded>>

\* the command "Batch rename all images instantly": batchRenameAllImages
\* starts
BatchRenameAllImagesStart ==
    /\ batch.pc = "idle"
    /\ batch' = [batch EXCEPT !.pc = "next",
                              !.cmd = "batchRenameAllImages"]
    /\ UNCHANGED <<settings, dd, vault, task, isProcessingCompression,
                   activeFile, probe, modals, call, loaded>>

\* batchRenameAllImages, the head of its loop up to renameFile's first
\* await: return on a link that resolves to nothing and on an extension
\* that is not an image's, notice and break on a name that is not
\* meaningful
BatchRenameAllImagesLoop ==
    /\ batch.pc = "next" /\ batch.cmd = "batchRenameAllImages"
    /\ batch' =
          IF batch.i > Len(batch.embeds)
          THEN [batch EXCEPT !.pc = "finished"]
          ELSE LET file == batch.embeds[batch.i]
               IN  IF file = MissingLink
                   THEN [batch EXCEPT !.pc = "returned"]
                   ELSE IF ~MatchesRenameExt(PathExtension(file))
                   THEN [batch EXCEPT !.pc = "returned"]
                   ELSE LET gen == generateNewName(PathExtension(file),
                                                   activeFile, settings)
                        IN  IF ~gen.isMeaningful
                            THEN [batch EXCEPT !.pc = "finished",
                                               !.notices = @ + 1]
                            ELSE [batch EXCEPT
                                    !.pc = "list", !.file = file,
                                    !.name = gen.newName,
                                    !.attempted = @ \cup {batch.i}]
    /\ UNCHANGED <<settings, dd, vault, task, isProcessingCompression,
                   activeFile, probe, modals, call, loaded>>

\* renameFile inside a batch loop: adapter.list() resolves and the name is
\* deduplicated
BatchListDir ==
    /\ batch.pc = "list"
    /\ batch' = [batch EXCEPT
                   !.pc = "rename",
                   !.target = deduplicateNewName(batch.name, Listing,
                                                 settings).name]
    /\ UNCHANGED <<settings, dd, vault, task, isProcessingCompression,
                   activeFile, probe, modals, call, loaded>>

\* renameFile inside a batch loop: fileManager.renameFile resolves, and the
\* loop goes on; or it rejects (the path exists, or an I/O error), and
\* renameFile shows a notice and throws the error again, out of the loop
BatchCommitRename_RollsBack(ioError) ==
    /\ batch.pc = "rename"
    /\ IF ~ioError /\ CanRename(vault, batch.file, batch.target)
       THEN /\ vault' = Renamed(vault, batch.file, batch.target)
            /\ batch' = [batch EXCEPT
                           !.pc = "next", !.i = @ + 1,
                           !.renamed = @ \cup {batch.i},
                           !.committed = @ \cup {[from |-> batch.file,
                                                  to |-> batch.target]}]
       ELSE /\ batch' = [batch EXCEPT !.pc = "aborted",
                                      !.notices = @ + 1,
                                      !.failed = TRUE]
            /\ vault' = BatchVault
    /\ UNCHANGED <<settings, dd, task, isProcessingCompression,
                   activeFile, probe, modals, call, loaded>>

BatchCommitRename(ioError) ==
    /\ batch.pc = "rename"
    /\ IF ~ioError /\ CanRename(vault, batch.file, batch.target)
       THEN /\ vault' = Renamed(vault, batch.file, batch.target)
            /\ batch' = [batch EXCEPT
                           !.pc = "next", !.i = @ + 1,
                           !.renamed = @ \cup {batch.i},
                           !.committed = @ \cup {[from |-> batch.file,
                                                  to |-> batch.target]}]
       ELSE /\ batch' = [batch EXCEPT !.pc = "aborted",
                                      !.notices = @ + 1,
                                      !.failed = TRUE]
            /\ UNCHANGED vault
    /\ UNCHANGED <<settings, dd, task, isProcessingCompression,
                   activeFile, probe, modals, call, loaded>>

BatchNext ==
    \/ RenameAllStart
    \/ RenameAllLoop
    \/ BatchRenameAllImagesStart
    \/ BatchRenameAllImagesLoop
    \/ BatchListDir
    \/ \E ioError \in BOOLEAN : BatchCommitRename(ioError)

BatchSpec == BatchInit /\ [][BatchNext]_vars

----------------------------------------------------------------------------
(* generateNewName and deduplicateNewName on their own: a name is generated *)
(* for a file from the active document's name, then deduplicated           *)

MaxStemLen == 2   \* characters in the active document's name

StemChars == {"a", "-", "_", "^", " ", "."}

GenStems ==
    UNION {[1..n -> StemChars] : n \in 0..MaxStemLen}

GenDelims == {<<"-">>, <<"_">>, <<"^">>}

GenSettings ==
    {[DEFAULT_SETTINGS EXCEPT !.dupNumberDelimiter = d,
                              !.dupNumberAtStart = s,
                              !.dupNumberAlways = a] :
        d \in GenDelims, s \in BOOLEAN, a \in BOOLEAN}

GenActiveFiles ==
    {[basename |-> b, dirName |-> <<"d">>,
      cache |-> [present |-> TRUE, hasFrontmatter |-> FALSE,
                 imageNameKey |-> <<>>, headings |-> <<>>]] :
        b \in GenStems}

\* the directory when the name is deduplicated: empty, holding the
\* candidate, holding the candidate and its first numbered form
GenListings(newName, stem, ext, st) ==
    {{}, {newName},
     {newName,
      IF st.dupNumberAtStart
      THEN Prefixed(stem, st.dupNumberDelimiter, <<"1">>, ext)
      ELSE Suffixed(stem, st.dupNumberDelimiter, <<"1">>, ext)}}

GenInit ==
    /\ settings \in GenSettings
    /\ dd = NoDedup
    /\ vault = NoFiles
    /\ task = NoTasks
    /\ isProcessingCompression = FALSE
    /\ activeFile \in GenActiveFiles
    /\ probe = NoProbe
    /\ modals = <<>>
    /\ call \in {[pc |-> "init", ext |-> e,
                   gen |-> [stem |-> <<>>, newName |-> <<>>,
                            isMeaningful |-> FALSE],
                   result |-> NoResult] : e \in PasteExts}
    /\ batch = NoBatch
    /\ loaded = TRUE

Generate ==
    /\ call.pc = "init"
    /\ call' = [call EXCEPT
                  !.pc = "gen",
                  !.gen = generateNewName(call.ext, activeFile, settings)]
    /\ UNCHANGED <<settings, dd, vault, task, isProcessingCompression,
                   activeFile, probe, modals, batch, loaded>>

Deduplicate ==
    /\ call.pc = "gen"
    /\ \E L \in GenListings(call.gen.newName, call.gen.stem, call.ext,
                             settings) :
          call' = [call EXCEPT
                     !.pc = "dedup",
                     !.result = deduplicateNewName(call.gen.newName, L,
                                                   settings)]
    /\ UNCHANGED <<settings, dd, vault, task, isProcessingCompression,
                   activeFile, probe, modals, batch, loaded>>

GenNext == Generate \/ Deduplicate

GenSpec == GenInit /\ [][GenNext]_vars

----------------------------------------------------------------------------
(* generateNewName on active documents with and without a file cache,      *)
(* frontmatter, the key, and headings of several levels                    *)

ContextPatterns ==
    {<<"{{fileName}}">>, <<"{{dirName}}">>, <<"{{firstHeading}}">>,
     <<"{{imageNameKey}}">>,
     <<"{{imageNameKey}}", "-", "{{firstHeading}}">>}

ContextHeadings ==
    {<<>>,
     <<[level |-> 2, heading |-> <<"x">>]>>,
     <<[level |-> 1, heading |-> <<"h">>]>>,
     <<[level |-> 2, heading |-> <<"x">>], [level |-> 1, heading |-> <<"h">>]>>,
     <<[level |-> 1, heading |-> <<"h">>], [level |-> 1, heading |-> <<"g">>]>>}

\* what getFileCache returns and what the model keeps when it returns
\* nothing (present = FALSE) or a cache without frontmatter
ContextActiveFiles ==
    {[basename |-> <<"b", "a">>, dirName |-> <<"d">>,
      cache |-> [present |-> c, hasFrontmatter |-> f,
                 imageNameKey |-> k, headings |-> h]] :
        c \in BOOLEAN, f \in BOOLEAN, k \in {<<>>, <<"a">>},
        h \in ContextHeadings}

ContextInit ==
    /\ settings \in {[DEFAULT_SETTINGS EXCEPT !.imageNamePattern = p] :
                        p \in ContextPatterns}
    /\ dd = NoDedup
    /\ vault = NoFiles
    /\ task = NoTasks
    /\ isProcessingCompression = FALSE
    /\ activeFile \in ContextActiveFiles
    /\ probe = NoProbe
    /\ modals = <<>>
    /\ call \in {[pc |-> "init", ext |-> e,
                   gen |-> [stem |-> <<>>, newName |-> <<>>,
                            isMeaningful |-> FALSE],
                   result |-> NoResult] : e \in PasteExts}
    /\ batch = NoBatch
    /\ loaded = TRUE

ContextNext == Generate

ContextSpec == ContextInit /\ [][ContextNext]_vars

----------------------------------------------------------------------------
(* getOptimalDefaultFormat on its own *)

GIF == <<"g", "i", "f">>

FormatSettings ==
    {[DEFAULT_SETTINGS EXCEPT !.enableCompression = e,
                              !.outputFormat = o,
                              !.smartFormatSelection = m] :
        e \in BOOLEAN, o \in {AUTO, JPG, WEBP, AVIF, PNG}, m \in BOOLEAN}

FormatInit ==
    /\ settings \in FormatSettings
    /\ dd = NoDedup
    /\ vault = NoFiles
    /\ task = NoTasks
    /\ isProcessingCompression = FALSE
    /\ activeFile = NoActiveFile
    /\ probe \in [avif : BOOLEAN, webp : BOOLEAN]
    /\ modals = <<>>
    /\ call \in {[pc |-> "ask", originalExtension |-> x, format |-> <<>>] :
                   x \in {PNG, JPG, GIF}}
    /\ batch = NoBatch
    /\ loaded = TRUE

GetFormat ==
    /\ call.pc = "ask"
    /\ call' = [call EXCEPT
                  !.pc = "format",
                  !.format = getOptimalDefaultFormat(call.originalExtension,
                                                     settings, probe)]
    /\ UNCHANGED <<settings, dd, vault, task, isProcessingCompression,
                   activeFile, probe, modals, batch, loaded>>

FormatNext == GetFormat

FormatSpec == FormatInit /\ [][FormatNext]_vars

----------------------------------------------------------------------------
(* Claims about generateNewName, deduplicateNewName, getOptimalDefaultFormat *)

\* the stem without whitespace and without the delimiter character
WithoutDelimiterAndSpace(stem, delimiter) ==
    LET keep(c) == c # " " /\ c # delimiter[1]
    IN  SelectSeq(stem, keep)

\* C14: generateNewName reports isMeaningful exactly when the stem, with
\* whitespace and every occurrence of the delimiter removed, is not empty,
\* for every delimiter.
C14_MeaningfulIffNonEmpty ==
    call.pc \in {"gen", "dedup"}
    => (call.gen.isMeaningful
          <=> WithoutDelimiterAndSpace(call.gen.stem,
                                       settings.dupNumberDelimiter) # <<>>)

\* C15: the extension is never changed: generateNewName gives stem + "." +
\* the file's extension, deduplicateNewName gives the candidate's extension
\* and a name that is its stem + "." + its extension.
C15_ExtensionKept ==
    /\ call.pc \in {"gen", "dedup"}
         => call.gen.newName = call.gen.stem \o <<".">> \o call.ext
    /\ call.pc = "dedup"
         => /\ call.result.extension = call.ext
            /\ call.result.extension = PathExtension(call.gen.newName)
            /\ call.result.name =
                  call.result.stem \o <<".">> \o call.result.extension

\* a numbered result for a stem with a dot and an extension other than png
C15_Witness ==
    /\ call.pc = "dedup"
    /\ call.ext = <<"p", "+">>
    /\ call.gen.stem = <<"a", ".">>
    /\ call.result.name # call.gen.newName

\* C16: getOptimalDefaultFormat gives the original extension with
\* compression off; else the configured format unless it is auto; else,
\* with smart selection, avif if supported and the source is not a gif,
\* else webp if supported, else jpg; else webp.
C16_OptimalDefaultFormat ==
    call.pc = "format"
    => /\ ~settings.enableCompression
            => call.format = call.originalExtension
       /\ (settings.enableCompression /\ settings.outputFormat # AUTO)
            => call.format = settings.outputFormat
       /\ ( /\ settings.enableCompression /\ settings.outputFormat = AUTO
            /\ settings.smartFormatSelection )
            => /\ (probe.avif /\ call.originalExtension # GIF)
                    => call.format = AVIF
               /\ (~(probe.avif /\ call.originalExtension # GIF)
                    /\ probe.webp) => call.format = WEBP
               /\ (~(probe.avif /\ call.originalExtension # GIF)
                    /\ ~probe.webp) => call.format = JPG
       /\ ( /\ settings.enableCompression /\ settings.outputFormat = AUTO
            /\ ~settings.smartFormatSelection )
            => call.format = WEBP

\* smart selection for a gif where avif is supported and webp is not
C16_Witness ==
    /\ call.pc = "format"
    /\ settings.enableCompression /\ settings.outputFormat = AUTO
    /\ settings.smartFormatSelection
    /\ probe.avif /\ ~probe.webp
    /\ call.originalExtension = GIF
    /\ call.format = JPG

----------------------------------------------------------------------------
(* Claims about the create handler and the rename modal *)

Started(t) == task[t].via # "none"

\* C13: startRenameProcess opens the modal when the generated name is not
\* meaningful or autoRename is off, pre-filled with the generated stem if it
\* is meaningful and with the empty string if not; otherwise it goes on to
\* renameFile with the generated name and opens no modal.
C13_ModalOrAutoRename ==
    [][\A t \in Tasks :
          (task[t].pc = "idle" /\ task'[t].via = "paste")
          => LET gen == generateNewName(task'[t].created.extension,
                                        activeFile, settings)
             IN  IF ~gen.isMeaningful \/ ~settings.autoRename
                 THEN /\ task'[t].pc = "modal"
                      /\ task'[t].stem =
                            (IF gen.isMeaningful THEN gen.stem ELSE <<>>)
                      /\ modals' = Append(modals, t)
                 ELSE /\ task'[t].pc = "list"
                      /\ task'[t].newName = gen.newName
                      /\ modals' = modals]_vars

\* a modal opened empty for a stem that is not empty and not meaningful,
\* and an auto-rename under way
C13_Witness ==
    /\ settings.autoRename
    /\ generateNewName(PNG, activeFile, settings).stem = <<"-">>
    /\ task[1].pc = "modal" /\ task[1].via = "paste"
    /\ task[1].stem = <<>>
    /\ modals = <<1>>

\* C17: every create event for a file created within the last second, not
\* markdown, named "Pasted image ...", starts a rename process when there
\* is an active file, whatever else the plugin is doing.
C17_PastedAlwaysStarts ==
    \A t \in Tasks :
        ( /\ task[t].pc # "idle"
          /\ task[t].created.recent
          /\ ~isMarkdownFile(task[t].created)
          /\ isPastedImage(task[t].created)
          /\ activeFile # NoActiveFile )
        => Started(t)

\* C18: with handleAllAttachments off only a file named "Pasted image ..."
\* starts a rename process; a markdown file and a file created more than a
\* second ago never start one.
C18_OnlyPastedStarts ==
    \A t \in Tasks :
        Started(t)
        => /\ task[t].created.recent
           /\ ~isMarkdownFile(task[t].created)
           /\ ~settings.handleAllAttachments
                 => isPastedImage(task[t].created)

\* with the option off: a pasted image started, a recent file that is
\* neither pasted nor markdown ignored
C18_Witness ==
    /\ ~settings.handleAllAttachments
    /\ Started(1) /\ isPastedImage(task[1].created)
    /\ task[2].pc = "ignored"
    /\ task[2].created.recent
    /\ ~isPastedImage(task[2].created)
    /\ ~isMarkdownFile(task[2].created)

\* C19: with handleAllAttachments on and an exclude pattern, a created file
\* whose extension matches the pattern never starts a rename process.
C19_ExcludedIgnored ==
    \A t \in Tasks :
        ( /\ task[t].pc # "idle"
          /\ settings.handleAllAttachments
          /\ settings.excludeExtensionPattern # <<>>
          /\ testExcludeExtension(task[t].created, settings) )
        => ~Started(t)

\* C20: abandoning the rename modal changes nothing in the vault, calls no
\* rename or conversion, and removes this modal, and only it, from modals.
\* The steps are those of the operator, with the plugin staying loaded.
C20_CancelHasNoEffect ==
    [][\A t \in Tasks :
          (task[t].pc = "modal" /\ task'[t].pc = "cancelled"
             /\ loaded' = loaded)
          => LET others(u) == u # t
             IN  /\ vault' = vault
                 /\ task' = [task EXCEPT ![t].pc = "cancelled"]
                 /\ modals' = SelectSeq(modals, others)
                 /\ Len(modals') = Len(modals) - 1
                 /\ isProcessingCompression' = isProcessingCompression]_vars

\* the first of two open modals abandoned: the file is there under its
\* pasted name with its bytes, the other modal stays open
C20_Witness ==
    /\ task[1].pc = "cancelled"
    /\ task[1].file \in Listing
    /\ task[1].file = task[1].created.name
    /\ vault[task[1].file] = Bytes(1, task[1].origExt)
    /\ task[2].pc = "modal"
    /\ modals = <<2>>

----------------------------------------------------------------------------
(* Claims about the batch loops *)

BatchEnded == batch.pc \in {"finished", "returned", "aborted"}

\* C11: when the rename of one item of ImageBatchRenameModal.renameAll
\* fails, a notice is shown and the batch goes on: every task is attempted.
C11_BatchContinues ==
    (batch.cmd = "renameAll" /\ BatchEnded)
    => /\ batch.attempted = 1..Len(batch.renameTasks)
       /\ batch.failed => batch.notices > 0

\* C12: batchRenameAllImages renames every embedded image (an extension
\* matching jpg/jpeg/png/gif/tiff/webp) whose generated name is meaningful,
\* whatever embeds come before it in the document.
C12_EveryImageRenamed ==
    (batch.cmd = "batchRenameAllImages" /\ BatchEnded /\ ~batch.failed)
    => \A i \in 1..Len(batch.embeds) :
          ( /\ batch.embeds[i] # MissingLink
            /\ MatchesRenameExt(PathExtension(batch.embeds[i]))
            /\ generateNewName(PathExtension(batch.embeds[i]), activeFile,
                               settings).isMeaningful )
          => i \in batch.renamed

----------------------------------------------------------------------------
(* Claims about the listing, the batch's effects and the render context *)

\* C21: every call of deduplicateNewName resolves against the listing of the
\* directory at the time of the call, never against an earlier one: a
\* second resolution, after the first rename is committed, sees its file.
C21_ListsAtEveryCall ==
    [][\A t \in Tasks :
          (task[t].pc = "list" /\ task'[t].pc = "rename")
          => task'[t].target =
                deduplicateNewName(task[t].newName, DOMAIN vault,
                                   settings).name]_vars

\* the second of two sequential renames of the same candidate resolved to
\* another name because the first one's file is listed
C21_Witness ==
    /\ task[1].pc = "done"
    /\ task[2].pc = "rename"
    /\ task[2].newName = task[1].file
    /\ task[2].target # task[2].newName

\* C22: when a batch rename stops before its last task, the renames
\* committed so far stay committed, and no other file has changed: no
\* rollback, no partial effect.
C22_CommittedStayCommitted ==
    /\ \A c \in batch.committed :
          /\ c.to \in Listing
          /\ vault[c.to] = BatchVault[c.from]
    /\ \A n \in BatchFiles :
          (\A c \in batch.committed : c.from # n)
          => (n \in Listing /\ vault[n] = BatchVault[n])
    /\ Cardinality(Listing) = Cardinality(BatchFiles)

\* a batch of three tasks stopped by a failure of the second
C22_Witness ==
    /\ batch.pc = "aborted"
    /\ batch.i = 2
    /\ Cardinality(batch.committed) = 1
    /\ Len(batch.embeds) = 3
    /\ batch.attempted = {1, 2}

\* C29: a file is not a collision with itself: when the candidate equals the
\* file's current name (dupNumberAlways off), renameFile leaves the name as
\* it is, so a second batch rename changes nothing.
C29_NoSelfCollision ==
    ( /\ batch.cmd = "batchRenameAllImages"
      /\ batch.pc = "rename"
      /\ ~settings.dupNumberAlways
      /\ batch.name = batch.file )
    => batch.target = batch.file

\* the first heading of level 1 in document order, or the empty string
ExpectedFirstHeading ==
    LET hs == activeFile.cache.headings
        ones == {i \in 1..Len(hs) : hs[i].level = 1}
    IN  IF activeFile.cache.present /\ ones # {}
        THEN hs[CHOOSE i \in ones : \A j \in ones : i <= j].heading
        ELSE <<>>

\* the frontmatter's imageNameKey, or the empty string
ExpectedImageNameKey ==
    IF activeFile.cache.present /\ activeFile.cache.hasFrontmatter
    THEN activeFile.cache.imageNameKey
    ELSE <<>>

\* C23: generateNewName renders the pattern with fileName = the active
\* document's base name, dirName = its parent's name, firstHeading = the
\* first heading of level 1 (empty when there is none), imageNameKey = the
\* frontmatter's value (empty when cache, frontmatter or key is absent).
C23_RenderContext ==
    call.pc = "gen"
    => /\ settings.imageNamePattern = <<"{{fileName}}">>
            => call.gen.stem = activeFile.basename
       /\ settings.imageNamePattern = <<"{{dirName}}">>
            => call.gen.stem = activeFile.dirName
       /\ settings.imageNamePattern = <<"{{firstHeading}}">>
            => call.gen.stem = ExpectedFirstHeading
       /\ settings.imageNamePattern = <<"{{imageNameKey}}">>
            => call.gen.stem = ExpectedImageNameKey
       /\ settings.imageNamePattern =
             <<"{{imageNameKey}}", "-", "{{firstHeading}}">>
            => call.gen.stem =
                  ExpectedImageNameKey \o <<"-">> \o ExpectedFirstHeading

\* a heading of level 2 before the first heading of level 1
C23_Witness ==
    /\ call.pc = "gen"
    /\ settings.imageNamePattern = <<"{{firstHeading}}">>
    /\ activeFile.cache.present
    /\ Len(activeFile.cache.headings) = 2
    /\ activeFile.cache.headings[1].level = 2
    /\ call.gen.stem = <<"h">>

----------------------------------------------------------------------------
(* Claims about a failed rename, checked under HandlerSpec *)

\* C24: when fileManager.renameFile fails, renameFile shows the failure
\* notice and propagates the error: the file keeps the name and the bytes it
\* was created with, the line in the editor is not edited, and no 'Renamed'
\* notice is shown
C24_FailedRenameLeavesAll ==
    \A t \in Tasks :
        task[t].pc = "failed"
        => /\ task[t].notice = "failed"
           /\ ~task[t].lineEdited
           /\ task[t].file = task[t].created.name
           /\ task[t].file \in Listing
           /\ vault[task[t].file] = Bytes(t, task[t].origExt)

\* C24's case: the second of two overlapping automatic renames was
\* rejected, the first was committed, its line edited and announced
C24_Witness ==
    /\ task[1].pc = "done" /\ task[1].lineEdited
    /\ task[1].notice = "renamed"
    /\ task[2].pc = "failed" /\ task[2].target = task[1].file

----------------------------------------------------------------------------
(* Claims about the rename modal, checked under ModalSpec *)

HasPrefix(name, pre) ==
    Len(name) >= Len(pre) /\ SubSeq(name, 1, Len(pre)) = pre

HasSuffix(name, suf) ==
    /\ Len(name) >= Len(suf)
    /\ SubSeq(name, Len(name) - Len(suf) + 1, Len(name)) = suf

\* C25: with compression disabled, confirming the rename modal never
\* converts the image: no conversion is started, and the file is renamed to
\* the confirmed stem with its original extension, its bytes as they were
C25_DisabledNeverConverts ==
    ~settings.enableCompression
    => /\ ~isProcessingCompression
       /\ \A t \in Tasks :
             task[t].via = "modal"
             => /\ task[t].pc \in {"list", "rename", "done", "failed"}
                /\ task[t].newName =
                      task[t].stem \o <<".">> \o task[t].origExt
                /\ task[t].pc = "done"
                   => /\ task[t].file = task[t].target
                      /\ HasPrefix(task[t].file, task[t].stem)
                      /\ HasSuffix(task[t].file,
                                   <<".">> \o task[t].origExt)
                      /\ vault[task[t].file] = Bytes(t, task[t].origExt)

\* C25's case: compression disabled, the modal confirmed with a typed name
\* and the file renamed
C25_Witness ==
    /\ ~settings.enableCompression
    /\ task[1].via = "modal" /\ task[1].pc = "done"
    /\ task[1].stem = <<"a">>
    /\ task[1].file = <<"a", ".">> \o task[1].origExt

----------------------------------------------------------------------------
(* Claims about the compression flag, checked under Spec *)

\* a call of compressToFormat on the file of task t is between its start
\* and its completion
Converting(t) == task[t].pc \in {"read", "blob", "delete", "create"}

\* C26: a file created by compressToFormat never starts a rename process,
\* overlapping conversions included: the create handler never starts one
\* for the file a conversion has just written
C26_ConvertedNeverHandled ==
    \A t \in Tasks : ~task[t].rehandled

\* C27: the flag is reset on every exit path of compressToFormat: it is
\* false whenever no compressToFormat is in progress
C27_FlagResetOnEveryExit ==
    (\A t \in Tasks : ~Converting(t)) => ~isProcessingCompression

\* C28: confirming the modal with an empty name never renames the file,
\* whether by Enter or by the Rename button
C28_EmptyNameNeverRenames ==
    \A t \in Tasks :
        (task[t].via = "modal" /\ task[t].confirmed /\ task[t].pc = "done")
        => task[t].stem # <<>>

----------------------------------------------------------------------------
(* Claims about unloading, checked under HandlerSpec *)

\* C30: after onunload every open rename modal has been closed and the
\* modals list is empty, however many modals were open
C30_UnloadClosesAll ==
    ~loaded
    => /\ modals = <<>>
       /\ \A t \in Tasks : task[t].pc # "modal"

============================================================================
